---- MODULE Spec2Model ----
(***************************************************************************)
(* Model of src/src/assets/pyorion_socket.js: the PyOrionConnections       *)
(* connection manager (connect / send / close / reconnect timer), its      *)
(* event-listener registry and dispatch, and the invoke() broker with its  *)
(* one-shot callbacks stored as window properties.                         *)
(***************************************************************************)
EXTENDS Integers, Sequences, FiniteSets, TLC

\* ---------------------------------------------------------------- bounds
\* WebSocket objects created in one behaviour (connect() calls that pass the URL check).
MaxSockets == 3
\* Listeners registered for one event (the broker's handler included).
MaxListeners == 2
\* Frames handed to WebSocket.send in one behaviour.
MaxSent == 2
\* invoke() calls in one behaviour.
MaxInvokes == 1
\* Nesting depth of the values given to the codec.
MaxDepth == 1

\* ---------------------------------------------------------------- values
\* A JavaScript value is a record [t |-> tag, v |-> content].
Null  == [t |-> "null",  v |-> <<>>]
Undef == [t |-> "undef", v |-> <<>>]
Num(n) == [t |-> "num", v |-> n]
Str(s) == [t |-> "str", v |-> s]
\* A boolean, held as the text JSON writes for it.
Bool(b) == [t |-> "bool", v |-> IF b THEN "true" ELSE "false"]
DateV(iso) == [t |-> "date", v |-> iso]
Arr(s) == [t |-> "arr", v |-> s]
\* A plain object: its own enumerable entries in insertion order, <<key, value>>.
Obj(kv) == [t |-> "obj", v |-> kv]
\* A Set: its elements in insertion order.
SetV(s) == [t |-> "set", v |-> s]
\* A Uint8Array (or the bytes of an ArrayBuffer): a sequence of 0..255.
Bytes(bs) == [t |-> "bytes", v |-> bs]
\* Any other object (a Map, a class instance): what String(obj) returns.
Other(str) == [t |-> "other", v |-> str]

Range(s) == {s[i] : i \in 1..Len(s)}

\* obj[k] of a plain object (undefined when absent).
Field(o, k) ==
  IF \E i \in 1..Len(o.v) : o.v[i][1] = k
  THEN o.v[CHOOSE i \in 1..Len(o.v) : o.v[i][1] = k][2]
  ELSE Undef

\* Strings that /^\d{4}-\d{2}-\d{2}T/ matches, with what new Date(s) makes of
\* them: the canonical ISO string of the instant, or "Invalid Date".
IsoEpoch == "2024-01-01T00:00:00.000Z"
DatePatternStrings == {IsoEpoch, "2024-01-01T00:00:00Z", "2024-13-01Tjunk"}
DateParse(s) ==
  CASE s = IsoEpoch -> IsoEpoch
    [] s = "2024-01-01T00:00:00Z" -> IsoEpoch
    [] OTHER -> "Invalid Date"

\* btoa(String.fromCharCode(...bytes)): the base64 text of a byte sequence.
B64Chars ==
  << "A", "B", "C", "D", "E", "F", "G", "H", "I", "J", "K", "L", "M", "N", "O", "P",
     "Q", "R", "S", "T", "U", "V", "W", "X", "Y", "Z", "a", "b", "c", "d", "e", "f",
     "g", "h", "i", "j", "k", "l", "m", "n", "o", "p", "q", "r", "s", "t", "u", "v",
     "w", "x", "y", "z", "0", "1", "2", "3", "4", "5", "6", "7", "8", "9", "+", "/" >>
B64Char(n) == B64Chars[n + 1]
RECURSIVE btoa(_)
btoa(bs) ==
  IF Len(bs) = 0 THEN ""
  ELSE IF Len(bs) = 1
  THEN B64Char(bs[1] \div 4) \o B64Char((bs[1] % 4) * 16) \o "=="
  ELSE IF Len(bs) = 2
  THEN B64Char(bs[1] \div 4) \o B64Char((bs[1] % 4) * 16 + bs[2] \div 16)
         \o B64Char((bs[2] % 16) * 4) \o "="
  ELSE B64Char(bs[1] \div 4) \o B64Char((bs[1] % 4) * 16 + bs[2] \div 16)
         \o B64Char((bs[2] % 16) * 4 + bs[3] \div 64) \o B64Char(bs[3] % 64)
         \o btoa(SubSeq(bs, 4, Len(bs)))

\* JS truthiness of a value ( if (x) ... ).
Truthy(x) ==
  CASE x.t = "null" -> FALSE
    [] x.t = "undef" -> FALSE
    [] x.t = "num" -> x.v # 0
    [] x.t = "bool" -> x.v = "true"
    [] x.t = "str" -> x.v # ""
    [] OTHER -> TRUE

\* String coercion inside a template literal ( `${x}` ).
ToStr(x) ==
  CASE x.t = "str" -> x.v
    [] x.t = "num" -> ToString(x.v)
    [] x.t = "bool" -> x.v
    [] x.t = "date" -> x.v
    [] x.t = "arr" -> "[array]"
    [] OTHER -> "[object Object]"

\* jsonMakeObjectSafe of the broker script.
RECURSIVE jsonMakeObjectSafe(_)
jsonMakeObjectSafe(obj) ==
  CASE obj.t \in {"null", "undef"} -> Null
    [] obj.t \in {"str", "num", "bool"} -> obj
    [] obj.t = "date" -> Str(obj.v)
    [] obj.t = "bytes" -> Str(btoa(obj.v))
    [] obj.t \in {"arr", "set"} ->
         Arr([i \in 1..Len(obj.v) |-> jsonMakeObjectSafe(obj.v[i])])
    [] obj.t = "obj" ->
         Obj([i \in 1..Len(obj.v) |-> <<obj.v[i][1], jsonMakeObjectSafe(obj.v[i][2])>>])
    [] OTHER -> Str(obj.v)

\* jsonMakeObjectSafe of the connection script (used by send).
RECURSIVE connMakeObjectSafe(_)
connMakeObjectSafe(obj) ==
  CASE obj.t \in {"null", "undef"} -> Null
    [] obj.t \in {"str", "num", "bool"} -> obj
    [] obj.t = "date" -> Str(obj.v)
    [] obj.t = "bytes" -> Str(btoa(obj.v))
    [] obj.t = "obj" ->
         Obj([i \in 1..Len(obj.v) |-> <<obj.v[i][1], connMakeObjectSafe(obj.v[i][2])>>])
    \* typeof obj === "object" && !Array.isArray(obj): a Set or another object
    \* has no own enumerable entries.
    [] obj.t \in {"set", "other"} -> Obj(<<>>)
    [] obj.t = "arr" -> Arr([i \in 1..Len(obj.v) |-> connMakeObjectSafe(obj.v[i])])

\* jsonRestoreObjectSync.
RECURSIVE jsonRestoreObjectSync(_)
jsonRestoreObjectSync(obj) ==
  CASE obj.t \in {"null", "undef"} -> Null
    [] obj.t = "str" ->
         IF obj.v \in DatePatternStrings /\ DateParse(obj.v) # "Invalid Date"
         THEN DateV(DateParse(obj.v))
         ELSE obj
    [] obj.t = "arr" -> Arr([i \in 1..Len(obj.v) |-> jsonRestoreObjectSync(obj.v[i])])
    [] obj.t = "obj" ->
         IF Truthy(Field(obj, "media_type")) /\ Truthy(Field(obj, "bytes"))
         THEN Str("data:" \o ToStr(Field(obj, "media_type")) \o ";base64,"
                          \o ToStr(Field(obj, "bytes")))
         ELSE Obj([i \in 1..Len(obj.v) |-> <<obj.v[i][1], jsonRestoreObjectSync(obj.v[i][2])>>])
    [] OTHER -> obj

\* jsonRestoreObjectAsync, awaited to its end: Promise.all and the for-await
\* loop keep the input order.
RECURSIVE jsonRestoreObjectAsync(_)
jsonRestoreObjectAsync(obj) ==
  CASE obj.t \in {"null", "undef"} -> Null
    [] obj.t = "str" -> obj
    [] obj.t = "arr" -> Arr([i \in 1..Len(obj.v) |-> jsonRestoreObjectAsync(obj.v[i])])
    [] obj.t = "obj" ->
         IF Truthy(Field(obj, "media_type")) /\ Truthy(Field(obj, "bytes"))
         THEN Str("data:" \o ToStr(Field(obj, "media_type")) \o ";base64,"
                          \o ToStr(Field(obj, "bytes")))
         ELSE Obj([i \in 1..Len(obj.v) |-> <<obj.v[i][1], jsonRestoreObjectAsync(obj.v[i][2])>>])
    [] OTHER -> obj

\* JSON.stringify of a transport-safe value: the text of one frame.
JSONstringify(v) == [json |-> v]

\* ---------------------------------------------------------------- state
VARIABLES
  config,           \* {url, autoReconnect}: the template values of the script
  ws,               \* index into sockets of the current WebSocket, 0 = null
  sockets,          \* readyState of every WebSocket object created so far
  shouldReconnect,
  reconnectTimer,   \* the last handle setTimeout returned, 0 = null
  timers,           \* handles of the timeouts that are scheduled and not yet fired
  nTimers,          \* handles handed out so far
  eventListeners,   \* event -> sequence of listeners
  sent,             \* frames handed to WebSocket.send, in order
  window,           \* id -> the callback stored as window["_" + id], or NoProp
  promises,         \* the promise of every invoke() call so far
  codec,            \* a value on its way through the codec: encoded, then restored
  last,             \* the operation that made the last step (history)
  closed            \* history: close() was called and the page has not called connect() since

vars == <<codec, config, ws, sockets, shouldReconnect, reconnectTimer, timers, nTimers,
          eventListeners, sent, window, promises, last, closed>>

connVars == <<ws, sockets, shouldReconnect, reconnectTimer, timers, nTimers>>
brokerVars == <<window, promises>>

Events == {"open", "message", "error", "close"}
\* Listeners a page registers; "bad" throws when it is called.
UserListeners == {"f", "g", "bad"}
\* The broker's "message" handler.
Broker == "broker"
Throws(l) == l = "bad"

\* The ids uid() may draw (the code: any Uint32): zero and two others.
Ids == {0, 1, 2}
NoProp == [inv |-> 0, role |-> "none"]

NoId == 0 - 1
\* last: the operation, the listeners its dispatch called, whether a listener's
\* exception escaped the dispatch, and a note on what the operation did.
Op(name, note) == [op |-> name, called |-> <<>>, threw |-> FALSE, note |-> note]

\* ---------------------------------------------------------------- listeners
\* addEventListener: append to the event's list.
addEventListener(event, listener) ==
  eventListeners' = [eventListeners EXCEPT ![event] = Append(@, listener)]

\* filter(l => l !== listener)
RECURSIVE FilterOut(_, _)
FilterOut(ls, listener) ==
  IF ls = <<>> THEN <<>>
  ELSE IF Head(ls) = listener THEN FilterOut(Tail(ls), listener)
       ELSE <<Head(ls)>> \o FilterOut(Tail(ls), listener)

\* (mutant) removal of the first match only.
RECURSIVE RemoveFirst(_, _)
RemoveFirst(ls, listener) ==
  IF ls = <<>> THEN <<>>
  ELSE IF Head(ls) = listener THEN Tail(ls)
       ELSE <<Head(ls)>> \o RemoveFirst(Tail(ls), listener)
removeEventListener_first(event, listener) ==
  eventListeners' = [eventListeners EXCEPT ![event] = RemoveFirst(@, listener)]
removeEventListener(event, listener) ==
  eventListeners' = [eventListeners EXCEPT ![event] = FilterOut(@, listener)]

removeAllEventListeners(event) ==
  eventListeners' = [eventListeners EXCEPT ![event] = <<>>]

\* Index of the first listener of ls that throws, 0 when none does.
FirstThrow(ls) ==
  IF \E i \in 1..Len(ls) : Throws(ls[i])
  THEN CHOOSE i \in 1..Len(ls) : Throws(ls[i]) /\ \A j \in 1..(i - 1) : ~Throws(ls[j])
  ELSE 0

\* dispatchEvent: forEach over the event's listeners; an exception thrown by a
\* listener ends the forEach and leaves dispatchEvent.  The result names the
\* listeners that were called and whether the exception escaped.
dispatchEvent(event) ==
  LET ls == eventListeners[event]
      k == FirstThrow(ls)
  IN [called |-> IF k = 0 THEN ls ELSE SubSeq(ls, 1, k), threw |-> k # 0]

Dispatched(name, d, note) ==
  [op |-> name, called |-> d.called, threw |-> d.threw, note |-> note]

\* PyOrionConnections.on / off / offAll, called by the page.
on(event, listener) ==
  /\ addEventListener(event, listener)
  /\ last' = Op("on", "")
  /\ UNCHANGED <<codec, config, connVars, sent, brokerVars, closed>>

off(event, listener) ==
  /\ removeEventListener(event, listener)
  /\ last' = Op("off", ToString(Len(eventListeners[event]) - Len(eventListeners'[event])))
  /\ UNCHANGED <<codec, config, connVars, sent, brokerVars, closed>>

offAll(event) ==
  /\ removeAllEventListeners(event)
  /\ last' = Op("offAll", "")
  /\ UNCHANGED <<codec, config, connVars, sent, brokerVars, closed>>

\* ---------------------------------------------------------------- connection
\* (mutant) is_connected without the readyState test.
is_connected_anySocket == ws # 0
is_connected == ws # 0 /\ sockets[ws] = "OPEN"
is_disconnected == ws = 0 \/ sockets[ws] = "CLOSED"

\* (mutant) a connect that always enables reconnection.
connect_alwaysReconnect ==
  IF ~config.url
  THEN UNCHANGED <<shouldReconnect, sockets, ws>>
  ELSE /\ shouldReconnect' = TRUE
       /\ sockets' = Append(sockets, "CONNECTING")
       /\ ws' = Len(sockets) + 1
\* The body of PyOrionConnections.connect.
connect ==
  IF ~config.url
  THEN UNCHANGED <<shouldReconnect, sockets, ws>>
  ELSE /\ shouldReconnect' = config.autoReconnect
       /\ sockets' = Append(sockets, "CONNECTING")
       /\ ws' = Len(sockets) + 1

\* connect() called by the page.
UserConnect ==
  /\ Len(sockets) < MaxSockets
  /\ connect
  /\ last' = Op("connect", "")
  /\ closed' = FALSE
  /\ UNCHANGED <<codec, config, reconnectTimer, timers, nTimers, eventListeners, sent, brokerVars>>

\* A scheduled reconnect timeout fires: setTimeout's callback is connect.
TimerFire(t) ==
  /\ t \in timers
  /\ Len(sockets) < MaxSockets
  /\ timers' = timers \ {t}
  /\ connect
  /\ last' = Op("timer", "")
  /\ UNCHANGED <<codec, config, reconnectTimer, nTimers, eventListeners, sent, brokerVars, closed>>

\* (mutant) send without the readyState test.
send_anySocket(data) ==
  IF ws # 0
  THEN sent' = Append(sent, [sock |-> ws, text |-> JSONstringify(connMakeObjectSafe(data))])
  ELSE UNCHANGED sent
\* The body of PyOrionConnections.send: one frame on the current socket when
\* it is open, else a console warning.
send(data) ==
  IF ws # 0 /\ sockets[ws] = "OPEN"
  THEN sent' = Append(sent, [sock |-> ws, text |-> JSONstringify(connMakeObjectSafe(data))])
  ELSE UNCHANGED sent

\* send() called by the page.
UserSend(data) ==
  /\ Len(sent) < MaxSent
  /\ send(data)
  /\ last' = Op("send", IF sent' = sent THEN "dropped" ELSE "sent")
  /\ UNCHANGED <<codec, config, connVars, eventListeners, brokerVars, closed>>

\* WebSocket.close(): a socket that is connecting or open starts closing.
wsClose(state) == IF state \in {"CONNECTING", "OPEN"} THEN "CLOSING" ELSE state

\* PyOrionConnections.close.
close ==
  /\ shouldReconnect' = FALSE
  /\ timers' = timers \ {reconnectTimer}
  /\ sockets' = IF ws # 0 THEN [sockets EXCEPT ![ws] = wsClose(@)] ELSE sockets
  /\ last' = Op("close", "")
  /\ closed' = TRUE
  /\ UNCHANGED <<codec, config, ws, reconnectTimer, nTimers, eventListeners, sent, brokerVars>>

\* ws.onopen of socket s.
SocketOpen(s) ==
  /\ sockets[s] = "CONNECTING"
  /\ sockets' = [sockets EXCEPT ![s] = "OPEN"]
  /\ last' = Dispatched("onopen", dispatchEvent("open"), "")
  /\ UNCHANGED <<codec, config, ws, shouldReconnect, reconnectTimer, timers, nTimers,
                 eventListeners, sent, brokerVars, closed>>

\* ws.onerror of socket s.
SocketError(s) ==
  /\ sockets[s] \in {"CONNECTING", "OPEN", "CLOSING"}
  /\ last' = Dispatched("onerror", dispatchEvent("error"), "")
  /\ UNCHANGED <<codec, config, connVars, eventListeners, sent, brokerVars, closed>>

\* (mutant) an onclose that rejects every pending invocation and forgets the
\* stored callbacks.
SocketClose_rejecting(s) ==
  /\ sockets[s] \in {"CONNECTING", "OPEN", "CLOSING"}
  /\ sockets' = [sockets EXCEPT ![s] = "CLOSED"]
  /\ promises' = [i \in 1..Len(promises) |->
                    IF promises[i].state = "pending"
                    THEN [promises[i] EXCEPT !.state = "rejected"] ELSE promises[i]]
  /\ window' = [id \in DOMAIN window |-> [inv |-> 0, role |-> "none"]]
  /\ last' = [op |-> "onclose", called |-> eventListeners["close"], threw |-> FALSE, note |-> ""]
  /\ UNCHANGED <<codec, config, ws, shouldReconnect, reconnectTimer, timers, nTimers,
                 eventListeners, sent, closed>>
\* ws.onclose of socket s: dispatch, then schedule the reconnect.  When a
\* listener throws, the statements after dispatchEvent are not reached.
SocketClose(s) ==
  /\ sockets[s] \in {"CONNECTING", "OPEN", "CLOSING"}
  /\ sockets' = [sockets EXCEPT ![s] = "CLOSED"]
  /\ LET d == dispatchEvent("close") IN
       /\ last' = Dispatched("onclose", d, IF ~d.threw /\ shouldReconnect THEN "scheduled" ELSE "")
       /\ IF ~d.threw /\ shouldReconnect
          THEN /\ nTimers' = nTimers + 1
               /\ timers' = timers \cup {nTimers + 1}
               /\ reconnectTimer' = nTimers + 1
          ELSE UNCHANGED <<nTimers, timers, reconnectTimer>>
  /\ UNCHANGED <<codec, config, ws, shouldReconnect, eventListeners, sent, brokerVars, closed>>

\* ---------------------------------------------------------------- broker
\* The promise invoke() returns, with what its two callbacks saw (history:
\* calls counts the calls of each callback, first/firstArg the first call).
ErrUnavailable == Str("Socket is not connected or unavailable!")
NewPromise(cmd) ==
  [cmd |-> cmd, state |-> "pending", value |-> Undef, ids |-> <<NoId, NoId>>,
   calls |-> [result |-> 0, error |-> 0], first |-> "none", firstArg |-> Undef]

\* resolve / reject of a promise: the first call settles it, later calls do nothing.
settle(p, outcome, v) ==
  IF p.state = "pending" THEN [p EXCEPT !.state = outcome, !.value = v] ELSE p

\* (mutant) both callbacks wired to resolve.
callbackOutcome_bothResolve(role) == "resolved"
\* invoke wires the result callback to resolve and the error callback to reject.
callbackOutcome(role) == IF role = "result" THEN "resolved" ELSE "rejected"

\* transformCallback(callback, once): Object.defineProperty(window, "_" + id, ...)
\* with the id uid() drew; a property that exists already is redefined.
transformCallback(w, id, i, role) == [w EXCEPT ![id] = [inv |-> i, role |-> role]]

\* (mutant) a callback that is not deleted when called (once = false).
deleteProperty_kept(w, id) == w
\* (mutant) a callback that, when called, also removes its sibling.
deleteProperty_siblings(w, id) ==
  [j \in DOMAIN w |-> IF w[j].inv = w[id].inv THEN [inv |-> 0, role |-> "none"] ELSE w[j]]
\* Reflect.deleteProperty(window, prop) at the start of a once-callback.
deleteProperty(w, id) == [w EXCEPT ![id] = NoProp]

\* window[prop](arg): the stored function deletes its property, restores the
\* argument and hands it to the callback.
callProp(b, id, arg) ==
  LET r == b.window[id]
      p == b.promises[r.inv]
      q == [p EXCEPT !.calls[r.role] = @ + 1,
                     !.first = IF p.first = "none" THEN r.role ELSE @,
                     !.firstArg = IF p.first = "none" THEN arg ELSE @]
  IN [window |-> deleteProperty(b.window, id),
      promises |-> [b.promises EXCEPT ![r.inv] =
                      settle(q, callbackOutcome(r.role), jsonRestoreObjectSync(arg))]]

\* The key "_" + x names the property of id x.
PropId(x) == IF x.t = "num" /\ x.v \in Ids THEN x.v ELSE NoId

\* (mutant) a handler that, finding nothing stored under the id, calls another
\* stored callback.
trigger_anyStored(b, id, arg) ==
  IF Truthy(id) /\ PropId(id) # NoId /\ b.window[PropId(id)] # NoProp
  THEN callProp(b, PropId(id), arg)
  ELSE IF \E j \in Ids : b.window[j] # NoProp
       THEN callProp(b, CHOOSE j \in Ids : b.window[j] # NoProp, arg)
       ELSE b
\* if (id) { if (window[prop]) window[prop](arg) }
trigger(b, id, arg) ==
  IF Truthy(id) /\ PropId(id) # NoId /\ b.window[PropId(id)] # NoProp
  THEN callProp(b, PropId(id), arg)
  ELSE b

\* The broker's "message" listener.  JSON.parse throwing, and the TypeError of
\* destructuring null, are caught by its try/catch.
onMessage(b, raw) ==
  IF raw.parse # "ok" THEN b
  ELSE LET data == jsonMakeObjectSafe(raw.value) IN
       IF data.t # "obj" THEN b
       ELSE LET b1 == trigger(b, Field(data, "result_id"), Field(data, "result"))
            IN trigger(b1, Field(data, "error_id"), Field(data, "error"))

\* The ids a frame bears.
Bears(raw) ==
  IF raw.parse = "ok" /\ raw.value.t = "obj"
  THEN {PropId(Field(raw.value, k)) : k \in {"result_id", "error_id"}} \ {NoId}
  ELSE {}

\* History: what an inbound frame was, seen from the state it arrived in.
\*   "malformed"  no JSON, or JSON that is no mapping
\*   "stale"      it bears only ids all of whose callbacks were called before
\*   "unknown"    it bears ids, none of which has a stored callback
\*   "unmatched"  it bears no id at all
\*   "zero"       the only stored callback it bears the id of is stored under 0
\*   "hit"        it bears a non-zero id a callback is stored under
FrameNote(raw) ==
  LET drawn(id) == {c \in (1..Len(promises)) \X {"result", "error"} :
                      promises[c[1]].ids[IF c[2] = "result" THEN 1 ELSE 2] = id}
      consumed == {id \in Ids : /\ drawn(id) # {}
                                /\ \A c \in drawn(id) : promises[c[1]].calls[c[2]] > 0}
      stored == {id \in Bears(raw) : window[id] # NoProp}
  IN CASE raw.parse # "ok" \/ raw.value.t # "obj" -> "malformed"
       [] Bears(raw) # {} /\ Bears(raw) \subseteq consumed -> "stale"
       [] Bears(raw) # {} /\ stored = {} -> "unknown"
       [] Bears(raw) = {} -> "unmatched"
       [] stored = {0} -> "zero"
       [] OTHER -> "hit"

\* (mutant) a broker wired to the socket itself, outside the listener registry.
SocketMessage_wired(s, raw) ==
  /\ sockets[s] = "OPEN"
  /\ LET d == dispatchEvent("message")
         b == onMessage([window |-> window, promises |-> promises], raw)
     IN /\ window' = b.window
        /\ promises' = b.promises
        /\ last' = Dispatched("onmessage", d, FrameNote(raw))
  /\ UNCHANGED <<codec, config, connVars, eventListeners, sent, closed>>
\* ws.onmessage of socket s with the frame raw.
SocketMessage(s, raw) ==
  /\ sockets[s] = "OPEN"
  /\ LET d == dispatchEvent("message")
         b == IF Broker \in Range(d.called)
              THEN onMessage([window |-> window, promises |-> promises], raw)
              ELSE [window |-> window, promises |-> promises]
     IN /\ window' = b.window
        /\ promises' = b.promises
        /\ last' = Dispatched("onmessage", d, FrameNote(raw))
  /\ UNCHANGED <<codec, config, connVars, eventListeners, sent, closed>>

\* (mutant) a message whose two ids are exchanged.
invokeMessage_swappedIds(cmd, result_id, error_id, py_args) ==
  Obj(<< <<"cmd", Str(cmd)>>, <<"result_id", Num(error_id)>>,
         <<"error_id", Num(result_id)>>, <<"payload", py_args>> >>)
\* const message = { cmd, result_id, error_id, payload: py_args }
invokeMessage(cmd, result_id, error_id, py_args) ==
  Obj(<< <<"cmd", Str(cmd)>>, <<"result_id", Num(result_id)>>,
         <<"error_id", Num(error_id)>>, <<"payload", py_args>> >>)

\* args ?? {}
orEmpty(args) == IF args.t \in {"null", "undef"} THEN Obj(<<>>) ELSE args

\* invoke(cmd, args): the executor of the promise it returns.
invoke(cmd, args) ==
  /\ Len(promises) < MaxInvokes
  /\ IF ~is_connected
     THEN /\ promises' = Append(promises, settle(NewPromise(cmd), "rejected", ErrUnavailable))
          /\ UNCHANGED <<window, sent>>
     ELSE /\ \E result_id \in Ids, error_id \in Ids :
               LET i == Len(promises) + 1
                   py_args == jsonMakeObjectSafe(orEmpty(args))
                   w1 == transformCallback(window, result_id, i, "result")
                   w2 == transformCallback(w1, error_id, i, "error")
                   message == invokeMessage(cmd, result_id, error_id, py_args)
               IN /\ window' = w2
                  /\ promises' = Append(promises, [NewPromise(cmd) EXCEPT !.ids = <<result_id, error_id>>])
                  /\ send(message)
  /\ last' = Op("invoke", IF promises'[Len(promises')].state = "rejected"
                           THEN "rejected" ELSE "pending")
  /\ UNCHANGED <<codec, config, connVars, eventListeners, closed>>

\* Frames a peer may send: text that is no JSON, JSON that is no mapping, and
\* mappings with any of result_id, error_id, result, error.
ResultPayloads == {Str(IsoEpoch)}
ErrorPayloads == {Str("boom")}
Entry(k, present, v) == IF present THEN << <<k, v>> >> ELSE <<>>
InboundObjects ==
  { Obj(Entry("result_id", rid # NoId, Num(rid)) \o Entry("error_id", eid # NoId, Num(eid))
        \o Entry("result", rid # NoId, res) \o Entry("error", eid # NoId, err)) :
      rid \in Ids \cup {NoId}, eid \in Ids \cup {NoId}, res \in ResultPayloads, err \in ErrorPayloads }
InboundFrames ==
  {[parse |-> "error", value |-> Undef]}
    \cup {[parse |-> "ok", value |-> v] : v \in {Null, Num(7)} \cup InboundObjects}

\* ---------------------------------------------------------------- codec
\* A step of the codec not taken yet.
NotYet == [t |-> "notyet", v |-> <<>>]
NoCodec == [v |-> NotYet, safe |-> NotYet, sync |-> NotYet, async |-> NotYet]

CodecBytes == {<<>>, <<1>>, <<1, 2>>, <<1, 2, 3>>, <<255, 254, 253, 252>>}
CodecAtoms ==
  {Null, Undef, Bool(TRUE), Num(0), Num(42), Str(""), Str("a"), DateV(IsoEpoch), Other("[object Map]")}
    \cup {Str(iso) : iso \in DatePatternStrings}
    \cup {Bytes(b) : b \in CodecBytes}
\* Values of nesting depth at most depth: atoms, one-element arrays, sets and
\* mappings, and media mappings.
RECURSIVE CodecValues(_)
CodecValues(depth) ==
  IF depth = 0 THEN CodecAtoms
  ELSE LET inner == CodecValues(depth - 1) IN
       inner \cup {Arr(<<x, Num(42)>>) : x \in inner}
             \cup {SetV(<<x>>) : x \in inner}
             \cup {Obj(<< <<"k", x>> >>) : x \in inner}
             \cup {Obj(<< <<"media_type", Str("image/png")>>, <<"bytes", x>> >>) : x \in inner}

\* Encode: jsonMakeObjectSafe of the value.
Encode ==
  /\ codec.v.t # "notyet" /\ codec.safe.t = "notyet"
  /\ codec' = [codec EXCEPT !.safe = jsonMakeObjectSafe(codec.v)]
  /\ last' = Op("encode", "")
  /\ UNCHANGED <<config, connVars, eventListeners, sent, brokerVars, closed>>

\* The immediate Decode of the encoded value.
DecodeSync ==
  /\ codec.safe.t # "notyet" /\ codec.sync.t = "notyet"
  /\ codec' = [codec EXCEPT !.sync = jsonRestoreObjectSync(codec.safe)]
  /\ last' = Op("decodeSync", "")
  /\ UNCHANGED <<config, connVars, eventListeners, sent, brokerVars, closed>>

\* The deferred Decode of the encoded value, awaited.
DecodeAsync ==
  /\ codec.safe.t # "notyet" /\ codec.async.t = "notyet"
  /\ codec' = [codec EXCEPT !.async = jsonRestoreObjectAsync(codec.safe)]
  /\ last' = Op("decodeAsync", "")
  /\ UNCHANGED <<config, connVars, eventListeners, sent, brokerVars, closed>>

\* ---------------------------------------------------------------- start
\* The state after both scripts ran: connect() was called once, the broker's
\* handler is the first "message" listener.
InitPage ==
  /\ config \in [url : BOOLEAN, autoReconnect : BOOLEAN]
  /\ eventListeners = [e \in Events |-> IF e = "message" THEN <<Broker>> ELSE <<>>]
  /\ timers = {}
  /\ nTimers = 0
  /\ reconnectTimer = 0
  /\ IF config.url
     THEN sockets = <<"CONNECTING">> /\ ws = 1 /\ shouldReconnect = config.autoReconnect
     ELSE sockets = <<>> /\ ws = 0 /\ shouldReconnect = TRUE
  /\ sent = <<>>
  /\ window = [i \in Ids |-> NoProp]
  /\ promises = <<>>
  /\ last = Op("init", "")
  /\ closed = FALSE

Init == InitPage /\ codec = NoCodec

SendValues == {Num(42), DateV(IsoEpoch)}
InvokeArgs == {Obj(<< <<"value", Num(42)>>, <<"at", DateV(IsoEpoch)>> >>)}
\* The same, and a call without args.
BrokerArgs == InvokeArgs \cup {Undef}

\* The connection manager: connect, close, the socket's events, the reconnect
\* timer, and the page's listeners of the close event.
NextConn ==
  \/ UserConnect
  \/ close
  \/ \E t \in 1..MaxSockets : TimerFire(t)
  \/ \E s \in 1..Len(sockets) : SocketOpen(s)
  \/ \E s \in 1..Len(sockets) : SocketClose(s)
  \/ \E l \in {"f", "bad"} : Len(eventListeners["close"]) < MaxListeners /\ on("close", l)
  \/ \E l \in {"f", "bad"} : off("close", l)
  \/ offAll("close")

SpecConn == Init /\ [][NextConn]_vars

\* The same with the event loop's guarantee that a scheduled timeout fires.
SpecConnFair == SpecConn /\ WF_vars(\E t \in 1..MaxSockets : TimerFire(t))

\* send over the connection's lifecycle.
NextSend ==
  \/ \E v \in SendValues : UserSend(v)
  \/ UserConnect
  \/ close
  \/ \E t \in 1..MaxSockets : TimerFire(t)
  \/ \E s \in 1..Len(sockets) : SocketOpen(s)
  \/ \E s \in 1..Len(sockets) : SocketClose(s)

SpecSend == Init /\ [][NextSend]_vars

\* The listener registry and dispatch, on the events of one socket.
DispatchEvents == {"message", "close"}
NextDispatch ==
  \/ \E e \in DispatchEvents, l \in UserListeners :
       Len(eventListeners[e]) < MaxListeners /\ on(e, l)
  \/ \E e \in DispatchEvents, l \in UserListeners : off(e, l)
  \/ \E e \in DispatchEvents : offAll(e)
  \/ \E s \in 1..Len(sockets) : SocketOpen(s)
  \/ \E s \in 1..Len(sockets) : SocketError(s)
  \/ \E s \in 1..Len(sockets) : SocketClose(s)
  \/ \E s \in 1..Len(sockets), raw \in InboundFrames : SocketMessage(s, raw)

SpecDispatch == Init /\ [][NextDispatch]_vars

\* The broker on one socket: invoke, inbound frames, close.
NextBroker ==
  \/ \E a \in InvokeArgs : invoke("echo", a)
  \/ \E s \in 1..Len(sockets), raw \in InboundFrames : SocketMessage(s, raw)
  \/ \E s \in 1..Len(sockets) : SocketOpen(s)
  \/ \E s \in 1..Len(sockets) : SocketClose(s)
  \/ close
  \/ offAll("message")

SpecBroker == Init /\ [][NextBroker]_vars

\* invoke on its own, with and without args, over the socket's lifecycle.
NextInvoke ==
  \/ \E a \in BrokerArgs : invoke("echo", a)
  \/ \E s \in 1..Len(sockets) : SocketOpen(s)
  \/ \E s \in 1..Len(sockets) : SocketClose(s)
  \/ close

SpecInvoke == Init /\ [][NextInvoke]_vars

\* The broker across reconnection: invoke and inbound frames while sockets
\* fail, close, and are replaced by the reconnect timer.
ReplyFrames ==
  {[parse |-> "ok", value |-> Obj(<< <<"result_id", Num(id)>>, <<"result", res>> >>)] :
      id \in Ids, res \in ResultPayloads}
    \cup {[parse |-> "ok", value |-> Obj(<< <<"error_id", Num(id)>>, <<"error", err>> >>)] :
            id \in Ids, err \in ErrorPayloads}
NextRecover ==
  \/ \E a \in InvokeArgs : invoke("echo", a)
  \/ \E s \in 1..Len(sockets), raw \in ReplyFrames : SocketMessage(s, raw)
  \/ \E s \in 1..Len(sockets) : SocketOpen(s)
  \/ \E s \in 1..Len(sockets) : SocketError(s)
  \/ \E s \in 1..Len(sockets) : SocketClose(s)
  \/ close
  \/ \E t \in 1..MaxSockets : TimerFire(t)

SpecRecover == Init /\ [][NextRecover]_vars

\* The broker's handler among the page's "message" listeners: the page adds and
\* removes its own listeners and clears the list, while invocations are made
\* and replies arrive.  The handler is a function literal inside the broker
\* script, so the page holds no reference to give to on or off.
NextDetach ==
  \/ \E a \in InvokeArgs : invoke("echo", a)
  \/ \E s \in 1..Len(sockets), raw \in ReplyFrames : SocketMessage(s, raw)
  \/ \E s \in 1..Len(sockets) : SocketOpen(s)
  \/ \E s \in 1..Len(sockets) : SocketClose(s)
  \/ Len(eventListeners["message"]) < MaxListeners /\ on("message", "f")
  \/ off("message", "f")
  \/ offAll("message")

SpecDetach == Init /\ [][NextDetach]_vars

\* The codec on its own: a value is encoded, then restored by both variants.
InitCodec == InitPage /\ codec \in {[NoCodec EXCEPT !.v = x] : x \in CodecValues(MaxDepth)}
NextCodec == Encode \/ DecodeSync \/ DecodeAsync
SpecCodec == InitCodec /\ [][NextCodec]_vars

\* ---------------------------------------------------------------- claims
InvokeStep == last'.op = "invoke" /\ Len(promises') = Len(promises) + 1
MessageStep == last'.op = "onmessage" /\ vars' # vars

\* C1: invoke called while the connection is not open (no socket, or a socket
\* that is connecting, closing or closed) rejects its promise at once with the
\* connection-unavailable error, sends no frame and stores no callback.
C1_InvokeWhileNotOpen ==
  [][(InvokeStep /\ (ws = 0 \/ sockets[ws] # "OPEN")) =>
       /\ window' = window
       /\ sent' = sent
       /\ promises'[Len(promises')].state = "rejected"
       /\ promises'[Len(promises')].value = ErrUnavailable
       /\ promises'[Len(promises')].ids = <<NoId, NoId>>
       /\ SubSeq(promises', 1, Len(promises)) = promises]_vars

\* A rejected invoke on a socket that exists and is not open.
C1_Witness ==
  /\ last.op = "invoke" /\ last.note = "rejected"
  /\ ws # 0 /\ sockets[ws] \in {"CONNECTING", "CLOSING", "CLOSED"}
  /\ promises[Len(promises)].state = "rejected"

\* C2: every callback stored under a correlation id is called at most once, it
\* is no longer stored after that call, and a frame that bears only ids whose
\* callbacks were all called before changes nothing and throws nothing.
C2_ResolvesAtMostOnce ==
  /\ [](\A i \in 1..Len(promises) :
          promises[i].calls.result <= 1 /\ promises[i].calls.error <= 1)
  /\ [][MessageStep =>
         /\ \A id \in Ids :
              (/\ window[id] # NoProp
               /\ promises'[window[id].inv].calls[window[id].role]
                    > promises[window[id].inv].calls[window[id].role])
              => window'[id] = NoProp
         /\ last'.note = "stale" => (window' = window /\ promises' = promises)
         /\ ~last'.threw]_vars

\* A frame arrived that bears an id whose callback was called before.
C2_Witness ==
  /\ last.op = "onmessage" /\ last.note = "stale"
  /\ \E i \in 1..Len(promises) : promises[i].state # "pending" /\ promises[i].first # "none"

\* C3: the promise of an invoke is settled by the first of its two callbacks
\* that an inbound frame calls (resolved by the result callback, rejected by
\* the error callback, with the restored payload of that frame), and a settled
\* promise never changes: not by a later frame for the other id, not by the
\* second id of a frame that bears both.
C3_SettledByFirstTrigger ==
  /\ [](\A i \in 1..Len(promises) :
          LET p == promises[i] IN
            /\ p.first = "none" =>
                 (p.state = "pending" \/ (p.state = "rejected" /\ p.ids = <<NoId, NoId>>))
            /\ p.first = "result" =>
                 (p.state = "resolved" /\ p.value = jsonRestoreObjectSync(p.firstArg))
            /\ p.first = "error" =>
                 (p.state = "rejected" /\ p.value = jsonRestoreObjectSync(p.firstArg)))
  /\ [][\A i \in 1..Len(promises) :
          promises[i].state # "pending" =>
            /\ promises'[i].state = promises[i].state
            /\ promises'[i].value = promises[i].value]_vars

\* A promise resolved with the restored result whose error callback was
\* called as well.
C3_Witness ==
  \E i \in 1..Len(promises) :
    /\ promises[i].state = "resolved"
    /\ promises[i].value = DateV(IsoEpoch)
    /\ promises[i].calls.result = 1
    /\ promises[i].calls.error = 1

\* C4: after close(), no reconnect timer fires (until the page calls connect()
\* again), whatever connect() calls and close events came before.
C4_NoTimerFiresAfterClose == ~(last.op = "timer" /\ closed)

\* C5: at most one reconnect timer is scheduled at any time.
C5_SingleReconnectTimer == Cardinality(timers) <= 1

\* C6: whenever a socket closes while auto-reconnect is configured and close()
\* was not called, a connect() follows (unless the page calls close() first),
\* whatever the listeners of the close event do.
C6_ReconnectFollowsDrop ==
  (last.op = "onclose" /\ ~closed /\ config.autoReconnect /\ Len(sockets) < MaxSockets)
    ~> (last.op \in {"timer", "connect"} \/ closed)

\* C7: at most one WebSocket that is not closed exists at any time.
C7_SingleActiveConnection ==
  Cardinality({s \in 1..Len(sockets) : sockets[s] # "CLOSED"}) <= 1

\* C8: send hands exactly one frame to the current socket when that socket is
\* open; in every other state it changes nothing, and no frame is sent at any
\* later time on its behalf.
C8_SendOnlyWhenOpen ==
  [][/\ last'.op = "send" =>
          /\ IF ws # 0 /\ sockets[ws] = "OPEN"
             THEN /\ Len(sent') = Len(sent) + 1
                  /\ SubSeq(sent', 1, Len(sent)) = sent
                  /\ sent'[Len(sent')].sock = ws
             ELSE sent' = sent
          /\ UNCHANGED <<connVars, eventListeners, brokerVars>>
     /\ last'.op # "send" => sent' = sent]_vars

\* One frame was sent while the socket was open, and a later send, on a socket
\* that is not open, was dropped.
C8_Witness ==
  /\ last.op = "send" /\ last.note = "dropped"
  /\ Len(sent) = 1
  /\ ws # 0 /\ sockets[ws] \in {"CONNECTING", "CLOSING", "CLOSED"}

\* The event a socket handler dispatches.
EventOf(op) ==
  CASE op = "onopen" -> "open"
    [] op = "onmessage" -> "message"
    [] op = "onerror" -> "error"
    [] op = "onclose" -> "close"

\* C9: a dispatch calls every listener registered for the event, also when one
\* of them fails, and the failure does not reach the socket handler.
C9_ListenerFaultIsolated ==
  last.op \in {"onopen", "onmessage", "onerror", "onclose"} =>
    (last.called = eventListeners[EventOf(last.op)] /\ ~last.threw)

Count(ls, l) == Cardinality({i \in 1..Len(ls) : ls[i] = l})

RECURSIVE Supported(_)
Supported(x) ==
  CASE x.t \in {"null", "bool", "num", "str", "date", "bytes"} -> TRUE
    [] x.t = "arr" -> \A i \in 1..Len(x.v) : Supported(x.v[i])
    [] x.t = "obj" -> \A i \in 1..Len(x.v) : Supported(x.v[i][2])
    [] OTHER -> FALSE

\* Structural equality of two values: the same kind, and equal content,
\* element by element and entry by entry.
RECURSIVE StructEq(_, _)
StructEq(a, b) ==
  /\ a.t = b.t
  /\ CASE a.t \in {"arr", "set"} ->
            /\ Len(a.v) = Len(b.v)
            /\ \A i \in 1..Len(a.v) : StructEq(a.v[i], b.v[i])
       [] a.t = "obj" ->
            /\ Len(a.v) = Len(b.v)
            /\ \A i \in 1..Len(a.v) : a.v[i][1] = b.v[i][1] /\ StructEq(a.v[i][2], b.v[i][2])
       [] OTHER -> a.v = b.v

\* C11: a primitive, a date, a byte buffer, or a nesting of them, encoded and
\* then restored (by either variant), is structurally equal to the value.
C11_RoundTripIdentity ==
  Supported(codec.v) =>
    /\ codec.sync.t # "notyet" => StructEq(codec.sync, codec.v)
    /\ codec.async.t # "notyet" => StructEq(codec.async, codec.v)

\* C12: no step other than an inbound frame (an error or close event, close(),
\* connect(), the reconnect timer, an open event) changes the stored callbacks
\* or any promise; a pending promise is settled only by a frame that calls one
\* of its callbacks, on whichever socket the frame arrives.
C12_DisconnectKeepsPending ==
  /\ [][last'.op \in {"onerror", "onclose", "close", "connect", "timer", "onopen"}
          => (window' = window /\ promises' = promises)]_vars
  /\ [][\A i \in 1..Len(promises) :
          (promises[i].state = "pending" /\ promises'[i].state # "pending")
            => (last'.op = "onmessage" /\ last'.note = "hit" /\ promises'[i].first # "none")]_vars

\* An invocation sent on a socket that has closed since was resolved by a
\* frame that arrived on a later socket.
C12_Witness ==
  /\ last.op = "onmessage" /\ last.note = "hit"
  /\ Len(sent) = 1 /\ sockets[sent[1].sock] = "CLOSED"
  /\ promises[1].state = "resolved" /\ promises[1].calls.error = 0

\* C13: a frame that does not parse, is no mapping, or bears only ids with no
\* callback stored (or no id at all) calls no callback, leaves the stored
\* callbacks and every promise as they were, and lets no exception out of the
\* handler.
C13_UnmatchedFrameDropped ==
  [][(last'.op = "onmessage" /\ last'.note \in {"malformed", "stale", "unknown", "unmatched"}) =>
       /\ window' = window
       /\ promises' = promises
       /\ ~last'.threw]_vars

\* A frame bearing an id nothing is stored under arrived while an invocation
\* was pending, and the invocation is still pending with both callbacks stored.
C13_Witness ==
  /\ last.op = "onmessage" /\ last.note = "unknown"
  /\ \E i \in 1..Len(promises) :
       /\ promises[i].state = "pending"
       /\ window[promises[i].ids[1]].inv = i
       /\ window[promises[i].ids[2]].inv = i

\* C14: the two ids an invocation draws differ from each other and from every
\* id a callback is still stored under, so storing its callbacks overwrites
\* no stored callback.
C14_FreshIds ==
  [][(InvokeStep /\ last'.note = "pending") =>
       LET p == promises'[Len(promises')] IN
         /\ p.ids[1] # p.ids[2]
         /\ window[p.ids[1]] = NoProp
         /\ window[p.ids[2]] = NoProp
         /\ window'[p.ids[1]] = [inv |-> Len(promises'), role |-> "result"]
         /\ window'[p.ids[2]] = [inv |-> Len(promises'), role |-> "error"]]_vars

C16_ReconnectOnlyWhenEnabled ==
  /\ [](~config.autoReconnect => (timers = {} /\ nTimers = 0))
  /\ [][nTimers' # nTimers => (last'.op = "onclose" /\ shouldReconnect)]_vars
  /\ [][(last'.op \in {"connect", "timer"} /\ Len(sockets') > Len(sockets))
          => shouldReconnect' = config.autoReconnect]_vars

\* With auto-reconnect off, a socket closed without close() having been
\* called, and no timer was scheduled.
C16_Witness ==
  /\ last.op = "onclose" /\ ~closed
  /\ ~config.autoReconnect /\ config.url
  /\ timers = {} /\ nTimers = 0

\* C17: whatever the id (zero included), a frame that bears it as result_id
\* (as error_id) while a callback is stored under it, and while the broker's
\* handler is registered, calls that callback with the frame's result (error)
\* and removes it from the stored callbacks.
C17_EveryIdDispatched ==
  [][\A s \in 1..Len(sockets), raw \in InboundFrames :
       (/\ SocketMessage(s, raw)
        /\ Broker \in Range(eventListeners["message"])
        /\ raw.parse = "ok" /\ raw.value.t = "obj") =>
         LET rid == PropId(Field(raw.value, "result_id"))
             eid == PropId(Field(raw.value, "error_id"))
             Called(id, arg) ==
               LET r == window[id] IN
                 /\ promises'[r.inv].calls[r.role] = promises[r.inv].calls[r.role] + 1
                 /\ window'[id] = NoProp
                 /\ promises[r.inv].first = "none" => promises'[r.inv].first # "none"
         IN /\ (rid # NoId /\ window[rid] # NoProp)
                 => (/\ Called(rid, Field(raw.value, "result"))
                     /\ promises[window[rid].inv].first = "none"
                          => promises'[window[rid].inv].firstArg = Field(raw.value, "result"))
            /\ (eid # NoId /\ eid # rid /\ window[eid] # NoProp)
                 => Called(eid, Field(raw.value, "error"))]_vars

\* C18: for every transport-safe value the deferred Decode, awaited, and the
\* immediate Decode give structurally equal results.
C18_DecodeVariantsAgree ==
  (codec.sync.t # "notyet" /\ codec.async.t # "notyet") => StructEq(codec.sync, codec.async)

\* C19: a stored callback leaves the stored callbacks only by being called
\* itself (or by an invoke that stores a callback under the same id): calling
\* one callback of an invocation leaves its sibling stored, and no other step
\* removes a callback.
C19_SiblingStaysStored ==
  [][\A id \in Ids :
       (window[id] # NoProp /\ window'[id] # window[id]) =>
         \/ /\ last'.op = "invoke"
            /\ window'[id].inv = Len(promises')
         \/ /\ last'.op = "onmessage"
            /\ window'[id] = NoProp
            /\ promises'[window[id].inv].calls[window[id].role]
                 = promises[window[id].inv].calls[window[id].role] + 1]_vars

\* An invocation is resolved, no invocation is pending, and its error callback
\* is still stored.
C19_Witness ==
  /\ Len(promises) >= 1
  /\ \A i \in 1..Len(promises) : promises[i].state # "pending"
  /\ promises[1].state = "resolved" /\ promises[1].calls.error = 0
  /\ promises[1].ids[1] # promises[1].ids[2]
  /\ window[promises[1].ids[2]] = [inv |-> 1, role |-> "error"]

\* C20: a connect() that creates a socket, by the page or by the reconnect
\* timer, sets shouldReconnect to the configured flag also after close() has
\* cleared it, and every close event that finds shouldReconnect true schedules
\* a reconnect timer.
C20_ConnectRearmsReconnect ==
  /\ [][(last'.op \in {"connect", "timer"} /\ Len(sockets') > Len(sockets) /\ ~shouldReconnect)
          => shouldReconnect' = config.autoReconnect]_vars
  /\ [][(last'.op = "onclose" /\ shouldReconnect)
          => (nTimers' = nTimers + 1 /\ reconnectTimer' \in timers')]_vars

\* The broker's handler is among the listeners of "message".
BrokerListening == Broker \in Range(eventListeners["message"])

\* C21: the broker's handler is a listener of "message" in the shared registry:
\* it is registered once, as the first listener, for no other event, and no
\* step registers it again; offAll("message") removes it, and from then on no
\* inbound frame calls a stored callback, so an invocation that is pending,
\* whether it was made before or after, stays pending (an invoke on a
\* connection that is not open is still rejected at once, as it always is).
C21_DetachedBrokerNeverSettles ==
  /\ [][/\ \A e \in Events \ {"message"} : Broker \notin Range(eventListeners'[e])
        /\ \A i \in 1..Len(eventListeners'["message"]) :
              eventListeners'["message"][i] = Broker => i = 1]_vars
  /\ [][last'.op = "offAll" => ~BrokerListening']_vars
  /\ [][~BrokerListening => ~BrokerListening']_vars
  /\ [][~BrokerListening =>
          /\ \A i \in 1..Len(promises) : promises'[i] = promises[i]
          /\ \A id \in Ids : window'[id] # window[id] => last'.op = "invoke"
          /\ last'.op = "onmessage" => (window' = window /\ promises' = promises)
          /\ Len(promises') > Len(promises) =>
                \/ promises'[Len(promises')].state = "pending"
                \/ /\ ~is_connected
                   /\ promises'[Len(promises')].state = "rejected"
                   /\ window' = window /\ sent' = sent]_vars

\* The list of "message" was cleared, a page listener was registered after
\* that, an invocation is pending with both callbacks stored, and a frame
\* bearing one of its ids has just been dispatched to the page's listener only.
C21_Witness ==
  /\ last.op = "onmessage" /\ last.note = "hit" /\ last.called = <<"f">>
  /\ ~BrokerListening
  /\ Len(promises) = 1 /\ promises[1].state = "pending"
  /\ promises[1].calls = [result |-> 0, error |-> 0]
  /\ window[promises[1].ids[1]].inv = 1

====
